---- MODULE Spec2Model ----
(***************************************************************************)
(* Model of main.py: the WBuy orders adapter.  Three resolution operations *)
(* (list_orders by date window, list_orders by numeric id, and             *)
(* lookup_by_tracking) run against an upstream whose every answer is       *)
(* chosen nondeterministically.  One action per upstream request: the      *)
(* request, plus all the code that runs until the next request or the      *)
(* return of the handler.                                                  *)
(***************************************************************************)
EXTENDS Integers, Sequences, FiniteSets, TLC

(***************************************************************************)
(* Bounds of the model.                                                    *)
(***************************************************************************)
\* longest record list the upstream puts in one response
MaxItems == 2
\* largest value of the max_pages argument a caller passes
MaxPagesArg == 2
\* the most page fetches of one of two calls served at once
MaxCallFetches == 2

(***************************************************************************)
(* Text.  A Python str is a sequence of one-character strings.             *)
(***************************************************************************)
LowerChars == <<"a","b","c","d","e","f","g","h","i","j","k","l","m",
                "n","o","p","q","r","s","t","u","v","w","x","y","z">>
UpperChars == <<"A","B","C","D","E","F","G","H","I","J","K","L","M",
                "N","O","P","Q","R","S","T","U","V","W","X","Y","Z">>
DigitChars == <<"0","1","2","3","4","5","6","7","8","9">>
SpaceChars == {" "}

Range(s) == {s[i] : i \in DOMAIN s}

IndexIn(c, s) == CHOOSE i \in DOMAIN s : s[i] = c

\* str.upper(), one character
UpperChar(c) == IF c \in Range(LowerChars) THEN UpperChars[IndexIn(c, LowerChars)] ELSE c

\* str.upper()
Upper(s) == [i \in DOMAIN s |-> UpperChar(s[i])]

\* str.strip()
RECURSIVE LStrip(_)
LStrip(s) == IF s # <<>> /\ Head(s) \in SpaceChars THEN LStrip(Tail(s)) ELSE s

RECURSIVE RStrip(_)
RStrip(s) ==
    IF s # <<>> /\ s[Len(s)] \in SpaceChars THEN RStrip(SubSeq(s, 1, Len(s) - 1)) ELSE s

Strip(s) == RStrip(LStrip(s))

\* s[:n]
Prefix(s, n) == SubSeq(s, 1, IF Len(s) < n THEN Len(s) ELSE n)

IsDigitChar(c) == c \in Range(DigitChars)

\* str.isdigit(): non-empty and every character a digit
IsDigit(s) == s # <<>> /\ \A i \in DOMAIN s : IsDigitChar(s[i])

DigitValue(c) == IndexIn(c, DigitChars) - 1

RECURSIVE IntOf(_)
IntOf(s) == IF s = <<>> THEN 0 ELSE 10 * IntOf(SubSeq(s, 1, Len(s) - 1)) + DigitValue(s[Len(s)])

RECURSIVE DigitsOf(_)
DigitsOf(n) == IF n < 10 THEN <<DigitChars[n + 1]>> ELSE DigitsOf(n \div 10) \o <<DigitChars[(n % 10) + 1]>>

\* re.sub(r"[^A-Z0-9]", "", s): the characters of s that are in A-Z or 0-9
RECURSIVE KeepAZ09(_)
KeepAZ09(s) ==
    IF s = <<>> THEN <<>>
    ELSE IF Head(s) \in Range(UpperChars) \cup Range(DigitChars)
         THEN <<Head(s)>> \o KeepAZ09(Tail(s))
         ELSE KeepAZ09(Tail(s))

(***************************************************************************)
(* JSON values: a record of one field, named after the Python type.        *)
(***************************************************************************)
JNull == [null |-> TRUE]
JStr(s) == [str |-> s]
JInt(n) == [int |-> n]
JList(l) == [list |-> l]
JDict(d) == [dict |-> d]
EmptyDict == JDict([k \in {} |-> JNull])

IsNull(x) == DOMAIN x = {"null"}
IsStr(x) == DOMAIN x = {"str"}
IsInt(x) == DOMAIN x = {"int"}
IsList(x) == DOMAIN x = {"list"}
IsDict(x) == DOMAIN x = {"dict"}

\* Python truthiness of a JSON value
Truthy(x) ==
    CASE IsNull(x) -> FALSE
      [] IsStr(x)  -> x.str # <<>>
      [] IsInt(x)  -> x.int # 0
      [] IsList(x) -> x.list # <<>>
      [] IsDict(x) -> DOMAIN x.dict # {}
      [] OTHER     -> TRUE

\* dict.get(k)
Get(o, k) == IF k \in DOMAIN o.dict THEN o.dict[k] ELSE JNull

\* a or b
Or(a, b) == IF Truthy(a) THEN a ELSE b

\* str(x) of a string or an integer
Str(x) == IF IsStr(x) THEN x.str ELSE IF IsInt(x) THEN DigitsOf(x.int) ELSE <<"N","o","n","e">>

(***************************************************************************)
(* Calendar dates.  A datetime.date is its proleptic Gregorian ordinal     *)
(* (date.toordinal()), so that dates compare and subtract as in Python.    *)
(***************************************************************************)
JDate(n) == [date |-> n]

IsLeap(y) == (y % 4 = 0) /\ ((y % 100 # 0) \/ (y % 400 = 0))

DaysInMonth(y, m) ==
    IF m = 2 THEN (IF IsLeap(y) THEN 29 ELSE 28)
    ELSE IF m \in {4, 6, 9, 11} THEN 30 ELSE 31

RECURSIVE DaysBeforeMonth(_, _)
DaysBeforeMonth(y, m) == IF m = 1 THEN 0 ELSE DaysBeforeMonth(y, m - 1) + DaysInMonth(y, m - 1)

Ordinal(y, m, d) ==
    (y - 1) * 365 + ((y - 1) \div 4) - ((y - 1) \div 100) + ((y - 1) \div 400)
    + DaysBeforeMonth(y, m) + d

\* s split at every "-"
RECURSIVE SplitDash(_)
SplitDash(s) ==
    IF \E i \in DOMAIN s : s[i] = "-"
    THEN LET i == CHOOSE k \in DOMAIN s : s[k] = "-" /\ \A h \in 1..(k - 1) : s[h] # "-"
         IN  <<SubSeq(s, 1, i - 1)>> \o SplitDash(SubSeq(s, i + 1, Len(s)))
    ELSE <<s>>

\* the %Y, %m and %d directives of strptime, each on a whole field
IsYearField(f) == Len(f) = 4 /\ IsDigit(f) /\ IntOf(f) >= 1
IsMonthField(f) == Len(f) \in {1, 2} /\ IsDigit(f) /\ IntOf(f) \in 1..12
IsDayField(f) ==
    \/ Len(f) \in {1, 2} /\ IsDigit(f) /\ IntOf(f) \in 1..31
    \/ Len(f) = 2 /\ f[1] = " " /\ IsDigitChar(f[2]) /\ f[2] # "0"
DayOfField(f) == IF f[1] = " " THEN IntOf(Tail(f)) ELSE IntOf(f)

\* _dt(date_str): datetime.strptime(date_str, "%Y-%m-%d").date(), None on any failure
_dt(s) ==
    IF s = <<>> THEN JNull
    ELSE LET f == SplitDash(s) IN
         IF /\ Len(f) = 3
            /\ IsYearField(f[1]) /\ IsMonthField(f[2]) /\ IsDayField(f[3])
            /\ DayOfField(f[3]) <= DaysInMonth(IntOf(f[1]), IntOf(f[2]))
         THEN JDate(Ordinal(IntOf(f[1]), IntOf(f[2]), DayOfField(f[3])))
         ELSE JNull

(***************************************************************************)
(* Helpers of main.py on upstream JSON.                                    *)
(***************************************************************************)
EnvelopeKeys == <<"data", "results", "items", "orders", "pedidos">>

\* the unwrapping that gives nothing for a dict without a list under a known key
UnwrapListOrNothing(obj) ==
    IF IsList(obj) THEN obj.list
    ELSE IF IsDict(obj) /\ \E i \in DOMAIN EnvelopeKeys : IsList(Get(obj, EnvelopeKeys[i]))
    THEN LET i == CHOOSE k \in DOMAIN EnvelopeKeys :
                     /\ IsList(Get(obj, EnvelopeKeys[k]))
                     /\ \A h \in 1..(k - 1) : ~IsList(Get(obj, EnvelopeKeys[h]))
         IN  Get(obj, EnvelopeKeys[i]).list
    ELSE <<>>

\* _unwrap_list(obj)
_unwrap_list(obj) ==
    IF IsNull(obj) THEN <<>>
    ELSE IF IsList(obj) THEN obj.list
    ELSE IF IsDict(obj) THEN
        IF \E i \in DOMAIN EnvelopeKeys : IsList(Get(obj, EnvelopeKeys[i]))
        THEN LET i == CHOOSE k \in DOMAIN EnvelopeKeys :
                         /\ IsList(Get(obj, EnvelopeKeys[k]))
                         /\ \A h \in 1..(k - 1) : ~IsList(Get(obj, EnvelopeKeys[h]))
             IN  Get(obj, EnvelopeKeys[i]).list
        ELSE <<obj>>
    ELSE <<>>

\* the first truthy element of a list of candidates, JNull when there is none
RECURSIVE FirstTruthy(_)
FirstTruthy(cands) ==
    IF cands = <<>> THEN JNull
    ELSE IF Truthy(Head(cands)) THEN Head(cands) ELSE FirstTruthy(Tail(cands))

\* o.get(k) or {}
GetDict(o, k) == Or(Get(o, k), EmptyDict)

\* _extract_tracking(o)
_extract_tracking(o) ==
    LET f == GetDict(o, "frete")
        ship == GetDict(o, "shipping")
        c == FirstTruthy(<<Get(f, "rastreio"), Get(f, "codigo_rastreamento"),
                           Get(f, "tracking_code"), Get(ship, "tracking"),
                           Get(ship, "tracking_code"), Get(o, "rastreamento"),
                           Get(o, "tracking"), Get(o, "tracking_code")>>)
    IN  IF Truthy(c) THEN Upper(Strip(Str(c))) ELSE <<>>

\* _extract_service(o)
_extract_service(o) ==
    LET f == GetDict(o, "frete")
        s == Or(Get(f, "servico"), Get(GetDict(o, "shipping"), "service"))
    IN  Strip(Or(s, JStr(<<>>)).str)

\* the timestamp cut to the 10 characters that are parsed
CreatedRawSliced(o) ==
    JStr(Prefix(Str(Or(Or(Or(Or(Get(o, "data"), Get(o, "created_at")), Get(o, "criado_em")),
                          Get(o, "date")), JStr(<<>>))), 10))

\* _created_any(o): the raw timestamp and the date parsed from its first 10 characters
CreatedRaw(o) ==
    Or(Or(Or(Or(Get(o, "data"), Get(o, "created_at")), Get(o, "criado_em")), Get(o, "date")),
       JStr(<<>>))
_created_any(o) == [raw |-> CreatedRaw(o), d |-> _dt(Prefix(Str(CreatedRaw(o)), 10))]

\* the normalization without the removal of the other characters
NormalizeUpperOnly(s) == Upper(s)

\* _normalize_tracking(s)
_normalize_tracking(s) == KeepAZ09(Upper(s))

\* the row list_orders builds from an upstream object
OrderRow(o) ==
    [orderId   |-> Get(o, "id"),
     numero    |-> Or(Or(Get(o, "numero"), Get(o, "order_number")), Get(o, "identificacao")),
     tracking  |-> _extract_tracking(o),
     service   |-> _extract_service(o),
     createdAt |-> CreatedRaw(o),
     updatedAt |-> Or(Or(Get(o, "updated_at"), Get(o, "atualizado_em")), JStr(<<>>))]

\* the row lookup_by_tracking builds from an upstream object
LookupRow(o) ==
    [orderId    |-> Get(o, "id"),
     numero     |-> Or(Or(Get(o, "numero"), Get(o, "order_number")), Get(o, "identificacao")),
     tracking   |-> _extract_tracking(o),
     valorFrete |-> Str(Or(Get(GetDict(o, "frete"), "valor"), JStr(<<>>))),
     service    |-> _extract_service(o),
     createdAt  |-> Or(Or(Or(Get(o, "data"), Get(o, "created_at")), Get(o, "criado_em")),
                       JStr(<<>>)),
     updatedAt  |-> Or(Or(Get(o, "updated_at"), Get(o, "atualizado_em")), JStr(<<>>))]

\* requests.get(...) answered: the status code and the body text
EmptyText == [t |-> "empty"]
MalformedText == [t |-> "malformed"]
JsonText(x) == [t |-> "json", js |-> x]
Response(st, body) == [kind |-> "response", st |-> st, body |-> body]
\* requests.get(...) raising (timeout, connection failure)
TransportFailure == [kind |-> "raise"]

\* js of _fetch_list: r.json() if r.text else {}, {} when r.json() raises
FetchJson(r) == IF r.body.t = "json" THEN r.body.js ELSE EmptyDict

\* _fetch_list(params) on the answer r: the items (the status is r.st)
_fetch_list(r) ==
    LET js == FetchJson(r)
        data == IF IsDict(js) THEN Get(js, "data") ELSE JNull
    IN  IF IsList(data) THEN data.list ELSE _unwrap_list(js)

(***************************************************************************)
(* The upstream.  Every answer is chosen freely among: a transport         *)
(* failure, an error status, or HTTP 200 with one of the bodies below.     *)
(***************************************************************************)
TrkAB == <<"A","B","1","2","3","4","5","6","7","8","9","B","R">>
TrkAaLower == <<"a","a","1","2","3","4","5","6","7","8","9","b","r">>
TrkAaSpaced == <<"A","A"," ","1","2","3","4","5","6","7","8","9","-","B","R">>

\* the order of the end-to-end scenario: id 7, inside September 2025
OrderA ==
    JDict([id |-> JInt(7),
           frete |-> JDict([rastreio |-> JStr(TrkAB)]),
           data |-> JStr(<<"2","0","2","5","-","0","9","-","2","8"," ","1","9",":","2","8",":","1","8">>)])
\* id 7 again, with other contents, dated before every window
OrderB ==
    JDict([id |-> JInt(7),
           numero |-> JStr(<<"1","0","0","1">>),
           frete |-> JDict([codigo_rastreamento |-> JStr(TrkAaLower),
                            servico |-> JStr(<<" ","P","A","C"," ">>),
                            valor |-> JStr(<<"2","3",",","9","0">>)]),
           created_at |-> JStr(<<"2","0","2","5","-","0","8","-","1","5"," ","1","0",":","0","0",":","0","0">>)])
\* id 8, dated October 2025
OrderC ==
    JDict([id |-> JInt(8),
           tracking |-> JStr(TrkAaSpaced),
           data |-> JStr(<<"2","0","2","5","-","1","0","-","0","2"," ","0","8",":","0","0",":","0","0">>)])
\* id 8 again, with a date that does not parse
OrderD ==
    JDict([id |-> JInt(8),
           data |-> JStr(<<"2","8","/","0","9","/","2","0","2","5">>)])

Orders == {OrderA, OrderB, OrderC, OrderD}

\* the record lists of length 0..MaxItems
RECURSIVE ListsUpTo(_)
ListsUpTo(n) ==
    IF n = 0 THEN {<<>>}
    ELSE LET shorter == ListsUpTo(n - 1)
         IN  shorter \cup {Append(l, o) : l \in {x \in shorter : Len(x) = n - 1}, o \in Orders}

Pages == ListsUpTo(MaxItems)

\* the usual envelope: {"data": [...]}
DataBodies == {JsonText(JDict([data |-> JList(p)])) : p \in Pages}

\* the other shapes: a bare list, another envelope key, a bare object, null,
\* an object with nothing in it, a list whose element is no object, no text,
\* text that is not JSON
OtherBodies ==
    {JsonText(JList(<<OrderC>>)),
     JsonText(JDict([results |-> JList(<<OrderD, OrderA>>)])),
     JsonText(OrderA),
     JsonText(JNull),
     JsonText(JList(<<JInt(5)>>)),
     EmptyText,
     MalformedText}

Bodies == DataBodies \cup OtherBodies

ErrorStatuses == {401, 403, 500}

Answers ==
    {Response(200, b) : b \in Bodies}
    \cup {Response(st, EmptyText) : st \in ErrorStatuses}
    \cup {TransportFailure}

\* the items of every answer, and what the helpers give for every object an
\* answer can carry: tabulated, so that each value is computed once
ItemsTable == [a \in Answers \ {TransportFailure} |-> _fetch_list(a)]
Items(a) == ItemsTable[a]
Objects == {o \in UNION {Range(ItemsTable[a]) : a \in DOMAIN ItemsTable} : IsDict(o)}
CreatedTable == [o \in Objects |-> _created_any(o)]
RowTable == [o \in Objects |-> OrderRow(o)]
TrackingTable == [o \in Objects |-> _normalize_tracking(_extract_tracking(o))]

(***************************************************************************)
(* The caller's inputs.                                                    *)
(***************************************************************************)
\* datetime.utcnow().date() at the time of the call
Today == JDate(Ordinal(2025, 10, 10))

\* the from and to arguments: September 2025, or neither (the last 30 days)
WindowArgs == {<<<<"2","0","2","5","-","0","9","-","0","1">>, <<"2","0","2","5","-","0","9","-","3","0">>>>,
               <<<<>>, <<>>>>}
\* the q argument: absent, or a numeric order id
QArgs == {<<>>, <<"7">>}
\* the max_pages argument, already an integer
MaxPagesArgs == 0..MaxPagesArg
\* the tracking argument
TrackingArgs == {<<>>, <<"-">>, TrkAaSpaced}

(***************************************************************************)
(* Pagination candidates of _discover_pagination.                          *)
(***************************************************************************)
TrialSize == 200
LimitOnlySize == 1000
WidenLimit == 1000
FallbackSize == 100

Candidates ==
    <<[mode |-> "page",   keys |-> [page |-> "page",   size |-> "page_size"],        size |-> TrialSize],
      [mode |-> "page",   keys |-> [page |-> "page",   size |-> "per_page"],         size |-> TrialSize],
      [mode |-> "page",   keys |-> [page |-> "pagina", size |-> "itens"],            size |-> TrialSize],
      [mode |-> "page",   keys |-> [page |-> "pagina", size |-> "itens_por_pagina"], size |-> TrialSize],
      [mode |-> "offset", keys |-> [offset |-> "offset", limit |-> "limit"],         size |-> TrialSize],
      [mode |-> "offset", keys |-> [offset |-> "start",  limit |-> "limit"],         size |-> TrialSize],
      [mode |-> "offset", keys |-> [offset |-> "skip",   limit |-> "take"],          size |-> TrialSize],
      [mode |-> "limit_only", keys |-> [limit |-> "limit"],                          size |-> LimitOnlySize]>>

NoKeys == [k \in {} |-> ""]
NoParams == [k \in {} |-> 0]

\* the query parameters of the requests
PageParams(keys, p, size) == (keys.page :> p) @@ (keys.size :> size)
OffsetParams(keys, off, size) == (keys.offset :> off) @@ (keys.limit :> size)
LimitParams(keys, size) == (keys.limit :> size)

\* GET {API_URL}/order with params, and GET {API_URL}/order/{q}
ListRequest(params) == [path |-> "/order", id |-> <<>>, params |-> params]
DetailRequest(q) == [path |-> "/order/{q}", id |-> q, params |-> NoParams]
NoRequest == [path |-> "", id |-> <<>>, params |-> NoParams]

\* the first trial request of candidate c, and the second
Trial1Params(c) ==
    IF c.mode = "page" THEN PageParams(c.keys, 1, c.size) ELSE OffsetParams(c.keys, 0, c.size)
Trial2Params(c) ==
    IF c.mode = "page" THEN PageParams(c.keys, 2, c.size) ELSE OffsetParams(c.keys, c.size, c.size)

\* the test with the comparison of the first records turned around
TrialAcceptsEqualFirst(st1, l1, st2, l2) ==
    st1 = 200 /\ l1 # <<>> /\ st2 = 200 /\ l2 # <<>> /\ l1[1] = l2[1]

\* the test without the comparison of the first records
TrialAcceptsAnyPair(st1, l1, st2, l2) ==
    st1 = 200 /\ l1 # <<>> /\ st2 = 200 /\ l2 # <<>>

\* the test that accepts a page or offset candidate from its two trial fetches
TrialAccepts(st1, l1, st2, l2) ==
    st1 = 200 /\ l1 # <<>> /\ st2 = 200 /\ l2 # <<>> /\ l1[1] # l2[1]

\* the outcome of the widening fetch, after a non-empty unparameterized fetch
WidenResult(l0, stL, lL) ==
    IF stL = 200 /\ Len(lL) > Len(l0)
    THEN [mode |-> "limit_only", keys |-> [limit |-> "limit"], size |-> LimitOnlySize]
    ELSE [mode |-> "none", keys |-> NoKeys, size |-> Len(l0)]

\* the outcome of the limit_only candidate, the last one
LimitOnlyResult(c, st, l) ==
    IF st = 200 /\ l # <<>>
    THEN [mode |-> c.mode, keys |-> c.keys, size |-> c.size]
    ELSE [mode |-> "none", keys |-> NoKeys, size |-> FallbackSize]

UnsetPg == [mode |-> "unset", keys |-> NoKeys, size |-> 0]

(***************************************************************************)
(* State.                                                                  *)
(***************************************************************************)
VARIABLES
    handler,      \* the route called: "list_orders" or "lookup_by_tracking"
    token,        \* WBUY_TOKEN is set
    argFrom, argTo, argQ, argTracking, max_pages,   \* request.args
    pc,           \* where the handler stands
    dfrom, dto,   \* the date window of list_orders
    tnorm,        \* the normalized tracking code looked for
    ci,           \* index of the candidate under trial
    items0,       \* items of the unparameterized trial fetch
    it1, s1,      \* items and status of a candidate's first trial fetch
    pg,           \* the pagination _discover_pagination returned
    page,         \* page number of the page walk
    offset,       \* offset of the offset walk
    iter,         \* iterations of "for _ in range(max_pages)" begun
    rows, seen,   \* list_orders: the rows kept and the ids they carry
    items,        \* _find_order_by_tracking: the items of the last page scanned
    found,        \* what _find_order_by_tracking returned
    result,       \* what the handler returned, or that it raised
    req,          \* history: the last upstream request
    nreq,         \* history: upstream requests issued
    nscan,        \* history: requests issued after pagination discovery
    answered,     \* history: "none", "all403", "allAuth" or "other"
    swept,        \* history: the objects handed to add_rows
    prev,         \* history: the objects of the pages scanned before the last
    trials,       \* history: how the candidates' pairs of trial fetches were answered
    status,       \* list_orders: st, the status of the last fetch of the sweep
    fetched,      \* history: the length and the earliest date of the sweep loop's last page
    status2,      \* list_orders: st2, the status of the lookahead fetch
    detail,       \* list_orders: r, the answer to the detail fetch
    firstOf,      \* history: for every id handed to add_rows, the first object carrying it
    unwrapArg,    \* a call of _unwrap_list alone: its argument
    unwrapOut,    \* a call of _unwrap_list alone: what it returned
    calls         \* concurrent calls of list_orders: the locals of each

inputs == <<handler, token, argFrom, argTo, argQ, argTracking, max_pages>>
window == <<dfrom, dto>>
disc == <<ci, items0, it1, s1>>
walk == <<page, offset, iter>>
acc == <<rows, seen, swept, firstOf>>
scan == <<items, prev, found>>
sweep == <<status, fetched, status2>>
others == <<unwrapArg, unwrapOut, calls>>
call == <<inputs, pc, window, tnorm, disc, pg, walk, acc, scan, sweep, detail, result,
          req, nreq, nscan, answered, trials>>
vars == <<call, others>>

Pending == [kind |-> "pending"]
NoPage == [len |-> 0, min |-> JNull]
NoAnswer == [kind |-> "none"]

\* the locals of a handler on entry, and the history of a call that has not begun
Entered ==
    /\ tnorm = <<>>
    /\ ci = 0 /\ items0 = <<>> /\ it1 = <<>> /\ s1 = 0
    /\ pg = UnsetPg
    /\ page = 0 /\ offset = 0 /\ iter = 0
    /\ rows = <<>> /\ seen = {} /\ swept = {} /\ firstOf = <<>>
    /\ items = <<>> /\ prev = {} /\ found = JNull
    /\ status = 0 /\ fetched = NoPage /\ status2 = 0
    /\ detail = NoAnswer
    /\ result = Pending
    /\ req = NoRequest /\ nreq = 0 /\ nscan = 0
    /\ answered = "none"
    /\ trials = "none"

\* no call of _unwrap_list alone, no concurrent calls
OthersIdle == unwrapArg = JNull /\ unwrapOut = Pending /\ calls = <<>>

Init ==
    /\ handler \in {"list_orders", "lookup_by_tracking"}
    /\ token \in BOOLEAN
    /\ max_pages \in MaxPagesArgs
    /\ IF handler = "list_orders"
       THEN /\ \E w \in WindowArgs : argFrom = w[1] /\ argTo = w[2]
            /\ argQ \in QArgs /\ argTracking = <<>>
       ELSE argFrom = <<>> /\ argTo = <<>> /\ argQ = <<>> /\ argTracking \in TrackingArgs
    /\ pc = "start"
    /\ dfrom = JNull /\ dto = JNull
    /\ Entered
    /\ OthersIdle

(***************************************************************************)
(* What a handler returns.                                                 *)
(***************************************************************************)
\* jsonify(payload), http
Json(http, payload) == [kind |-> "response", http |-> http, json |-> payload]
\* an exception left the handler
Raised(exc) == [kind |-> "raised", exc |-> exc]

ConfigError == Json(500, [ok |-> FALSE, error |-> "WBUY_TOKEN ausente"])
HttpError(st) == Json(502, [ok |-> FALSE, error |-> "HTTP {st} em /order", st |-> st])
\* from and to carry the dates themselves; their ISO text is not spelled out
OkRows(rs) == Json(200, [ok |-> TRUE, from |-> dfrom, to |-> dto, count |-> Len(rs), rows |-> rs])
TrackingRequired == Json(400, [ok |-> FALSE, error |-> "Parametro tracking e obrigatorio."])
NotFound == Json(200, [ok |-> TRUE, found |-> FALSE, row |-> JNull])
Found(o) == Json(200, [ok |-> TRUE, found |-> TRUE, row |-> LookupRow(o)])

Finish(res) == pc' = "done" /\ result' = res

\* the answer of the unpaginated upstream that holds one order
ScenarioAnswer == Response(200, JsonText(JDict([data |-> JList(<<OrderA>>)])))

\* the history of answers, after one more: "all403" while every answer was
\* 403, "allAuth" while every answer was 401 or 403, "scenario" while every
\* answer was ScenarioAnswer, "other" otherwise
Noted(h, a) ==
    IF a.kind = "raise" THEN "other"
    ELSE IF a = ScenarioAnswer THEN (IF h \in {"none", "scenario"} THEN "scenario" ELSE "other")
    ELSE IF a.st = 403 /\ h \in {"none", "all403"} THEN "all403"
    ELSE IF a.st \in {401, 403} /\ h \in {"none", "all403", "allAuth"} THEN "allAuth"
    ELSE "other"

\* the history of trial pairs, after one more: "differ" once a pair was served
\* (both 200, both non-empty) with different first records, "same" while every
\* pair was served with the same first record, "mixed" otherwise
Tried(h, st1, l1, st2, l2) ==
    IF h = "differ" THEN h
    ELSE IF st1 = 200 /\ st2 = 200 /\ Len(l1) > 0 /\ Len(l2) > 0
         THEN (IF Head(l1) = Head(l2)
               THEN (IF h \in {"none", "same"} THEN "same" ELSE "mixed")
               ELSE "differ")
         ELSE "mixed"

\* one upstream request r, answered by a
Sent(r, a) ==
    /\ req' = r
    /\ nreq' = nreq + 1
    /\ answered' = Noted(answered, a)

(***************************************************************************)
(* list_orders and lookup_by_tracking, up to their first upstream request. *)
(***************************************************************************)
\* list_orders, lines 213-223: the token check, the window, the branch on q
ListOrdersStart ==
    /\ pc = "start" /\ handler = "list_orders"
    /\ IF ~token
       THEN Finish(ConfigError) /\ UNCHANGED window
       ELSE /\ dfrom' = Or(_dt(argFrom), JDate(Today.date - 30))
            /\ dto' = Or(_dt(argTo), Today)
            /\ pc' = IF IsDigit(Strip(argQ)) THEN "detail" ELSE "disc0"
            /\ UNCHANGED result
    /\ UNCHANGED <<inputs, others, detail, sweep, tnorm, disc, pg, walk, acc, scan, req, nreq, nscan, answered,
                   trials>>

\* lookup_by_tracking, lines 328-332, and _find_order_by_tracking, lines 148-152
LookupStart ==
    /\ pc = "start" /\ handler = "lookup_by_tracking"
    /\ LET tracking == Strip(argTracking) IN
       IF tracking = <<>>
       THEN Finish(TrackingRequired) /\ UNCHANGED tnorm
       ELSE /\ tnorm' = _normalize_tracking(tracking)
            /\ IF tnorm' = <<>>
               THEN Finish(NotFound)
               ELSE pc' = "disc0" /\ UNCHANGED result
    /\ UNCHANGED <<inputs, others, detail, sweep, window, disc, pg, walk, acc, scan, req, nreq, nscan, answered,
                   trials>>

(***************************************************************************)
(* list_orders with a numeric q: the detail fetch, lines 223-239.          *)
(***************************************************************************)
\* the parsed body taken for the object, whatever its shape
DetailObjectWhole(o) == o

\* the object the row is built from, given the parsed body
DetailObject(o) ==
    IF IsDict(o) /\ "data" \in DOMAIN o.dict /\ IsList(o.dict["data"]) /\ o.dict["data"].list # <<>>
    THEN o.dict["data"].list[1]
    ELSE o

DetailResult(a) ==
    IF a.kind = "raise" THEN Raised("transport")
    ELSE IF a.st # 200 THEN OkRows(<<>>)
    ELSE IF a.body.t = "malformed" THEN Raised("json")
    ELSE LET o == DetailObject(IF a.body.t = "empty" THEN EmptyDict ELSE a.body.js) IN
         IF ~IsDict(o) THEN Raised("attribute") ELSE OkRows(<<OrderRow(o)>>)

DetailFetch ==
    /\ pc = "detail"
    /\ \E a \in Answers :
        /\ Sent(DetailRequest(Strip(argQ)), a)
        /\ detail' = (IF a.kind = "raise" THEN detail ELSE a)
        /\ Finish(DetailResult(a))
    /\ UNCHANGED <<inputs, others, sweep, window, tnorm, disc, pg, walk, acc, scan, nscan, trials>>

(***************************************************************************)
(* _discover_pagination, lines 86-137.                                     *)
(***************************************************************************)
\* the caller goes on with the pagination pgv: list_orders lines 269-303,
\* _find_order_by_tracking lines 153-181.  The locals of _discover_pagination
\* end with it.
Discovered(pgv) ==
    /\ pg' = pgv
    /\ ci' = 0 /\ items0' = <<>> /\ it1' = <<>> /\ s1' = 0
    /\ page' = 1 /\ offset' = 0 /\ iter' = 0
    /\ IF pgv.mode \in {"none", "limit_only"}
       THEN pc' = (IF handler = "list_orders" THEN "single" ELSE "scan1") /\ UNCHANGED result
       ELSE IF max_pages >= 1
            THEN /\ pc' = IF handler = "list_orders"
                          THEN (IF pgv.mode = "page" THEN "sweepP" ELSE "sweepO")
                          ELSE (IF pgv.mode = "page" THEN "scanP" ELSE "scanO")
                 /\ UNCHANGED result
            ELSE Finish(IF handler = "list_orders" THEN OkRows(rows) ELSE NotFound)

\* line 106-107: the unparameterized fetch
DiscoverPlain ==
    /\ pc = "disc0"
    /\ \E a \in Answers :
        /\ Sent(ListRequest(NoParams), a)
        /\ IF a.kind = "raise"
           THEN Finish(Raised("transport")) /\ UNCHANGED <<ci, items0>>
           ELSE IF a.st = 200 /\ Items(a) # <<>>
                THEN /\ items0' = Items(a)
                     /\ pc' = "discL"
                     /\ UNCHANGED <<ci, result>>
                ELSE /\ ci' = 1
                     /\ pc' = "trial1"
                     /\ UNCHANGED <<items0, result>>
    /\ UNCHANGED <<inputs, others, detail, sweep, window, tnorm, it1, s1, pg, walk, acc, scan, nscan, trials>>

\* lines 109-112: the widening fetch
DiscoverWiden ==
    /\ pc = "discL"
    /\ \E a \in Answers :
        /\ Sent(ListRequest([limit |-> WidenLimit]), a)
        /\ IF a.kind = "raise"
           THEN Finish(Raised("transport")) /\ UNCHANGED <<disc, pg, walk>>
           ELSE Discovered(WidenResult(items0, a.st, Items(a)))
    /\ UNCHANGED <<inputs, others, detail, sweep, window, tnorm, acc, scan, nscan, trials>>

\* lines 118-120, 125-127: a page or offset candidate's first trial fetch
DiscoverTrial1 ==
    /\ pc = "trial1"
    /\ \E a \in Answers :
        /\ Sent(ListRequest(Trial1Params(Candidates[ci])), a)
        /\ IF a.kind = "raise"
           THEN Finish(Raised("transport")) /\ UNCHANGED <<it1, s1>>
           ELSE /\ it1' = Items(a)
                /\ s1' = a.st
                /\ pc' = "trial2"
                /\ UNCHANGED result
    /\ UNCHANGED <<inputs, others, detail, sweep, window, tnorm, ci, items0, pg, walk, acc, scan, nscan, trials>>

\* lines 121-123, 128-130: its second trial fetch, and the test.  On to the
\* next candidate, it1 and s1 are not read again before they are reassigned.
DiscoverTrial2 ==
    /\ pc = "trial2"
    /\ \E a \in Answers :
        /\ Sent(ListRequest(Trial2Params(Candidates[ci])), a)
        /\ IF a.kind = "raise"
           THEN /\ Finish(Raised("transport"))
                /\ UNCHANGED <<disc, pg, walk, trials>>
           ELSE /\ trials' = Tried(trials, s1, it1, a.st, Items(a))
                /\ IF TrialAccepts(s1, it1, a.st, Items(a))
                   THEN Discovered([mode |-> Candidates[ci].mode,
                                    keys |-> Candidates[ci].keys,
                                    size |-> Candidates[ci].size])
                   ELSE /\ ci' = ci + 1
                        /\ it1' = <<>> /\ s1' = 0
                        /\ pc' = IF Candidates[ci + 1].mode = "limit_only"
                                 THEN "trialL" ELSE "trial1"
                        /\ UNCHANGED <<items0, result, pg, walk>>
    /\ UNCHANGED <<inputs, others, detail, sweep, window, tnorm, acc, scan, nscan>>

\* lines 131-137: the limit_only candidate, then the fallback
DiscoverLimitOnly ==
    /\ pc = "trialL"
    /\ \E a \in Answers :
        /\ Sent(ListRequest(LimitParams(Candidates[ci].keys, Candidates[ci].size)), a)
        /\ IF a.kind = "raise"
           THEN Finish(Raised("transport")) /\ UNCHANGED <<disc, pg, walk>>
           ELSE Discovered(LimitOnlyResult(Candidates[ci], a.st, Items(a)))
    /\ UNCHANGED <<inputs, others, detail, sweep, window, tnorm, acc, scan, nscan, trials>>

(***************************************************************************)
(* list_orders by date window: the sweep, lines 243-318.                   *)
(***************************************************************************)
\* o.get on an item that is no dict raises AttributeError
NonDict(its) == \E i \in DOMAIN its : ~IsDict(its[i])

\* the date filter without its upper end
OutsideWindowFromOnly(o) ==
    LET d == CreatedTable[o].d
    IN  Truthy(d) /\ d.date < dfrom.date

\* the date filter of add_rows, lines 249-253: o is skipped
OutsideWindow(o) ==
    LET d == CreatedTable[o].d
    IN  Truthy(d) /\ (d.date < dfrom.date \/ d.date > dto.date)

\* the id test without the look into seen
UnusableUnseen(oid, sn) == ~Truthy(oid)

\* the id test of add_rows, line 255: o is skipped
Unusable(oid, sn) == ~Truthy(oid) \/ oid \in sn

\* add_rows(items), lines 245-267, from the rows and seen so far
RECURSIVE add_rows(_, _, _)
add_rows(its, rws, sn) ==
    IF its = <<>> THEN [rows |-> rws, seen |-> sn]
    ELSE LET o == Head(its)
             oid == Get(o, "id")
         IN  IF OutsideWindow(o) \/ Unusable(oid, sn)
             THEN add_rows(Tail(its), rws, sn)
             ELSE add_rows(Tail(its), Append(rws, RowTable[o]), sn \cup {oid})

\* lines 291-292, 309-310: the page holds a date before the window start
ParsedDates(its) ==
    {CreatedTable[its[i]].d.date : i \in {k \in DOMAIN its : Truthy(CreatedTable[its[k]].d)}}
MinOf(S) == CHOOSE m \in S : \A x \in S : m <= x
\* the test taking the latest date of the page instead of the earliest
CrossesStartByMax(its) ==
    ParsedDates(its) # {} /\ (\A d \in ParsedDates(its) : d < dfrom.date)

CrossesStart(its) == ParsedDates(its) # {} /\ MinOf(ParsedDates(its)) < dfrom.date

\* the failure test taking only server errors for failures
SingleFailedServerSide(st) == st >= 500

\* lines 273, 279: the only fetch of modes none and limit_only failed
SingleFailed(st) == st # 200

\* history: the first object carrying each id, after add_rows(its)
RECURSIVE FirstSeen(_, _)
FirstSeen(its, fo) ==
    IF its = <<>> THEN fo
    ELSE LET oid == Get(Head(its), "id")
         IN  FirstSeen(Tail(its),
                       IF Truthy(oid) /\ oid \notin DOMAIN fo THEN fo @@ (oid :> Head(its)) ELSE fo)

\* history: how many items the page its holds, and the earliest date that
\* parses among its objects
Fetched(its) ==
    LET ds == {CreatedTable[its[i]].d.date :
                   i \in {k \in DOMAIN its : IsDict(its[k]) /\ Truthy(CreatedTable[its[k]].d)}}
    IN  [len |-> Len(its),
         min |-> IF ds = {} THEN JNull ELSE JDate(CHOOSE m \in ds : \A x \in ds : m <= x)]

\* add_rows(its) called from the sweep
Swept(its) ==
    LET r == add_rows(its, rows, seen) IN
    /\ rows' = r.rows /\ seen' = r.seen
    /\ swept' = swept \cup Range(its)
    /\ firstOf' = FirstSeen(its, firstOf)

\* the loop left by break reports the failure
WalkBreakReports(stv, rs) == IF stv # 200 THEN HttpError(stv) ELSE OkRows(rs)

\* lines 288-289, 296, 306-307, 313, 318: after "break", or a lookahead fetch
\* that is not added, the rows so far are returned
WalkBreak(stv, rs) == OkRows(rs)

\* lines 271-281: modes none and limit_only, one fetch
SingleParams == IF pg.mode = "none" THEN NoParams ELSE LimitParams(pg.keys, pg.size)

SweepSingle ==
    /\ pc = "single"
    /\ \E a \in Answers :
        /\ Sent(ListRequest(SingleParams), a)
        /\ IF a.kind = "raise"
           THEN Finish(Raised("transport")) /\ UNCHANGED <<acc, fetched, status>>
           ELSE /\ fetched' = Fetched(Items(a)) /\ status' = a.st
                /\ IF SingleFailed(a.st) THEN Finish(HttpError(a.st)) /\ UNCHANGED acc
                   ELSE IF NonDict(Items(a)) THEN Finish(Raised("attribute")) /\ UNCHANGED acc
                   ELSE Swept(Items(a)) /\ Finish(OkRows(rows'))
    /\ nscan' = nscan + 1
    /\ UNCHANGED <<inputs, others, detail, status2, window, tnorm, disc, pg, walk,
                   scan, trials>>

\* lines 283-299: mode page, one turn of the loop up to its lookahead fetch
SweepPage ==
    /\ pc = "sweepP"
    /\ \E a \in Answers :
        /\ Sent(ListRequest(PageParams(pg.keys, page, pg.size)), a)
        /\ IF a.kind = "raise"
           THEN Finish(Raised("transport")) /\ UNCHANGED <<page, acc, fetched, status>>
           ELSE /\ fetched' = Fetched(Items(a)) /\ status' = a.st
                /\ IF a.st # 200 \/ Items(a) = <<>>
                   THEN Finish(WalkBreak(a.st, rows)) /\ UNCHANGED <<page, acc>>
                   ELSE IF NonDict(Items(a))
                        THEN Finish(Raised("attribute")) /\ UNCHANGED <<page, acc>>
                   ELSE /\ Swept(Items(a))
                        /\ page' = page + 1
                        /\ IF CrossesStart(Items(a)) THEN pc' = "lookP" /\ UNCHANGED result
                           ELSE IF page + 1 <= max_pages
                                THEN pc' = "sweepP" /\ UNCHANGED result
                           ELSE Finish(OkRows(rows'))
    /\ nscan' = nscan + 1
    /\ UNCHANGED <<inputs, others, detail, status2, window, tnorm, disc, pg,
                   offset, iter, scan, trials>>

\* lines 295-298: the lookahead fetch of mode page, then the return
LookaheadPage ==
    /\ pc = "lookP"
    /\ \E a \in Answers :
        /\ Sent(ListRequest(PageParams(pg.keys, page, pg.size)), a)
        /\ IF a.kind = "raise"
           THEN Finish(Raised("transport")) /\ UNCHANGED <<acc, status2>>
           ELSE /\ status2' = a.st
                /\ IF a.st # 200 \/ Items(a) = <<>>
                   THEN Finish(WalkBreak(a.st, rows)) /\ UNCHANGED acc
                   ELSE IF NonDict(Items(a)) THEN Finish(Raised("attribute")) /\ UNCHANGED acc
                   ELSE Swept(Items(a)) /\ Finish(OkRows(rows'))
    /\ nscan' = nscan + 1
    /\ UNCHANGED <<inputs, others, detail, fetched, status, window, tnorm, disc, pg, walk,
                   scan, trials>>

\* lines 301-316: mode offset, one turn of the loop up to its lookahead fetch
SweepOffset ==
    /\ pc = "sweepO"
    /\ \E a \in Answers :
        /\ Sent(ListRequest(OffsetParams(pg.keys, offset, pg.size)), a)
        /\ IF a.kind = "raise"
           THEN Finish(Raised("transport")) /\ UNCHANGED <<offset, iter, acc, fetched, status>>
           ELSE /\ fetched' = Fetched(Items(a)) /\ status' = a.st
                /\ IF a.st # 200 \/ Items(a) = <<>>
                   THEN Finish(WalkBreak(a.st, rows)) /\ UNCHANGED <<offset, iter, acc>>
                   ELSE IF NonDict(Items(a))
                        THEN Finish(Raised("attribute")) /\ UNCHANGED <<offset, iter, acc>>
                   ELSE /\ Swept(Items(a))
                        /\ offset' = offset + pg.size
                        /\ IF CrossesStart(Items(a))
                           THEN pc' = "lookO" /\ UNCHANGED <<iter, result>>
                           ELSE /\ iter' = iter + 1
                                /\ IF iter + 1 < max_pages
                                   THEN pc' = "sweepO" /\ UNCHANGED result
                                   ELSE Finish(OkRows(rows'))
    /\ nscan' = nscan + 1
    /\ UNCHANGED <<inputs, others, detail, status2, window, tnorm, disc, pg, page,
                   scan, trials>>

\* lines 312-315: the lookahead fetch of mode offset, then the return
LookaheadOffset ==
    /\ pc = "lookO"
    /\ \E a \in Answers :
        /\ Sent(ListRequest(OffsetParams(pg.keys, offset, pg.size)), a)
        /\ IF a.kind = "raise"
           THEN Finish(Raised("transport")) /\ UNCHANGED <<acc, status2>>
           ELSE /\ status2' = a.st
                /\ IF a.st # 200 \/ Items(a) = <<>>
                   THEN Finish(WalkBreak(a.st, rows)) /\ UNCHANGED acc
                   ELSE IF NonDict(Items(a)) THEN Finish(Raised("attribute")) /\ UNCHANGED acc
                   ELSE Swept(Items(a)) /\ Finish(OkRows(rows'))
    /\ nscan' = nscan + 1
    /\ UNCHANGED <<inputs, others, detail, fetched, status, window, tnorm, disc, pg, walk,
                   scan, trials>>

(***************************************************************************)
(* lookup_by_tracking: the scan of _find_order_by_tracking, lines 155-192, *)
(* and the answer, lines 333-346.                                          *)
(***************************************************************************)
\* hit(params), lines 155-157
hit(a) == IF a.st = 200 THEN Items(a) ELSE <<>>

\* the test of lines 162, 174, 187
TrackingMatches(o, t) == TrackingTable[o] = t

\* "for o in items: if ...: return o": the first match, none, or the
\* AttributeError of an item that is no dict
RECURSIVE ScanItems(_, _)
ScanItems(its, t) ==
    IF its = <<>> THEN [kind |-> "miss"]
    ELSE IF ~IsDict(Head(its)) THEN [kind |-> "raise"]
    ELSE IF TrackingMatches(Head(its), t) THEN [kind |-> "hit", o |-> Head(its)]
    ELSE ScanItems(Tail(its), t)

\* lookup_by_tracking on the object o that _find_order_by_tracking returned
Returned(o) ==
    /\ found' = o
    /\ Finish(IF Truthy(o) THEN Found(o) ELSE NotFound)

\* lines 159-164: modes none and limit_only, one fetch
ScanSingle ==
    /\ pc = "scan1"
    /\ \E a \in Answers :
        /\ Sent(ListRequest(SingleParams), a)
        /\ IF a.kind = "raise"
           THEN Finish(Raised("transport")) /\ UNCHANGED <<items, prev, found>>
           ELSE /\ items' = hit(a)
                /\ prev' = prev \cup Range(items)
                /\ LET sc == ScanItems(hit(a), tnorm) IN
                   IF sc.kind = "raise" THEN Finish(Raised("attribute")) /\ UNCHANGED found
                   ELSE IF sc.kind = "hit" THEN Returned(sc.o)
                   ELSE Returned(JNull)
    /\ nscan' = nscan + 1
    /\ UNCHANGED <<inputs, others, detail, sweep, window, tnorm, disc, pg, walk, acc, trials>>

\* lines 166-177: mode page, one turn of the loop
ScanPage ==
    /\ pc = "scanP"
    /\ \E a \in Answers :
        /\ Sent(ListRequest(PageParams(pg.keys, page, pg.size)), a)
        /\ IF a.kind = "raise"
           THEN Finish(Raised("transport")) /\ UNCHANGED <<items, prev, found, page>>
           ELSE /\ items' = hit(a)
                /\ prev' = prev \cup Range(items)
                /\ LET sc == ScanItems(hit(a), tnorm) IN
                   IF hit(a) = <<>> THEN Returned(JNull) /\ UNCHANGED page
                   ELSE IF sc.kind = "raise"
                        THEN Finish(Raised("attribute")) /\ UNCHANGED <<found, page>>
                   ELSE IF sc.kind = "hit" THEN Returned(sc.o) /\ UNCHANGED page
                   ELSE /\ page' = page + 1
                        /\ IF page + 1 <= max_pages
                           THEN pc' = "scanP" /\ UNCHANGED <<found, result>>
                           ELSE Returned(JNull)
    /\ nscan' = nscan + 1
    /\ UNCHANGED <<inputs, others, detail, sweep, window, tnorm, disc, pg, offset, iter, acc, trials>>

\* lines 179-190: mode offset, one turn of the loop
ScanOffset ==
    /\ pc = "scanO"
    /\ \E a \in Answers :
        /\ Sent(ListRequest(OffsetParams(pg.keys, offset, pg.size)), a)
        /\ IF a.kind = "raise"
           THEN Finish(Raised("transport")) /\ UNCHANGED <<items, prev, found, offset, iter>>
           ELSE /\ items' = hit(a)
                /\ prev' = prev \cup Range(items)
                /\ LET sc == ScanItems(hit(a), tnorm) IN
                   IF hit(a) = <<>> THEN Returned(JNull) /\ UNCHANGED <<offset, iter>>
                   ELSE IF sc.kind = "raise"
                        THEN Finish(Raised("attribute")) /\ UNCHANGED <<found, offset, iter>>
                   ELSE IF sc.kind = "hit" THEN Returned(sc.o) /\ UNCHANGED <<offset, iter>>
                   ELSE /\ offset' = offset + pg.size
                        /\ iter' = iter + 1
                        /\ IF iter + 1 < max_pages
                           THEN pc' = "scanO" /\ UNCHANGED <<found, result>>
                           ELSE Returned(JNull)
    /\ nscan' = nscan + 1
    /\ UNCHANGED <<inputs, others, detail, sweep, window, tnorm, disc, pg, page, acc, trials>>

(***************************************************************************)
(* The specification.                                                      *)
(***************************************************************************)
Next ==
    \/ ListOrdersStart
    \/ LookupStart
    \/ DetailFetch
    \/ DiscoverPlain
    \/ DiscoverWiden
    \/ DiscoverTrial1
    \/ DiscoverTrial2
    \/ DiscoverLimitOnly
    \/ SweepSingle
    \/ SweepPage
    \/ LookaheadPage
    \/ SweepOffset
    \/ LookaheadOffset
    \/ ScanSingle
    \/ ScanPage
    \/ ScanOffset

Spec == Init /\ [][Next]_vars

(***************************************************************************)
(* _unwrap_list alone, lines 35-44: a call on each JSON value of a family  *)
(* that covers every shape the function tells apart.                       *)
(***************************************************************************)
\* no handler is running
Idle ==
    /\ handler = "none" /\ token = TRUE
    /\ argFrom = <<>> /\ argTo = <<>> /\ argQ = <<>> /\ argTracking = <<>> /\ max_pages = 0
    /\ pc = "idle"
    /\ dfrom = JNull /\ dto = JNull
    /\ Entered

\* what a key of a dict holds: nothing (the key is absent), a list, null, a dict
Shapes == {"absent", "list", "null", "dict"}
ShapeValue(k, s) ==
    IF s = "list" THEN JList(<<JStr(<<k>>)>>) ELSE IF s = "null" THEN JNull ELSE EmptyDict

\* the dicts that hold, under each of the known keys, any of the shapes
EnvelopeDicts ==
    {JDict([k \in {x \in Range(EnvelopeKeys) : f[x] # "absent"} |-> ShapeValue(k, f[k])]) :
        f \in [Range(EnvelopeKeys) -> Shapes]}

\* the arguments: those dicts, the envelopes of the upstream, and values
\* that are neither a list nor a dict
UnwrapArgs ==
    EnvelopeDicts
    \cup {JList(<<>>), JList(<<OrderC>>), JList(<<JInt(5), JNull>>),
          JDict([data |-> JList(<<OrderA, OrderB>>)]),
          JDict([results |-> JList(<<OrderD, OrderA>>)]),
          JDict([id |-> JInt(7), orders |-> JInt(3)]),
          OrderA, OrderB,
          JNull, JInt(0), JInt(5), JStr(<<>>), JStr(<<"d", "a", "t", "a">>)}

UnwrapInit ==
    /\ Idle
    /\ unwrapArg \in UnwrapArgs
    /\ unwrapOut = Pending
    /\ calls = <<>>

\* return _unwrap_list(obj)
UnwrapCall ==
    /\ unwrapOut = Pending
    /\ unwrapOut' = JList(_unwrap_list(unwrapArg))
    /\ UNCHANGED <<call, unwrapArg, calls>>

UnwrapNext == UnwrapCall

UnwrapSpec == UnwrapInit /\ [][UnwrapNext]_vars

(***************************************************************************)
(* Two calls of list_orders by date window served at once, each with the   *)
(* locals of its own invocation (lines 242-243). Both ask for September    *)
(* 2025 and both walk by page; a call makes at most MaxCallFetches         *)
(* fetches.                                                                *)
(***************************************************************************)
CallIds == {1, 2}

\* what the upstream may answer to a page fetch of either call: the records
\* of an answer with status 200; a failed fetch leaves the loop as the empty
\* page does. No page holds a date before September 2025, so the lookahead
\* of lines 292-298 is never entered.
ConcurrentPages == {<<>>, <<OrderA>>, <<OrderC, OrderD>>, <<OrderD, OrderA>>}

\* line 243, rows, seen = [], set(), with the pages served so far (history)
FreshCall == [pc |-> "sweep", rows |-> <<>>, seen |-> {}, served |-> <<>>, result |-> Pending]

\* one set of seen ids for the whole process
SeenOfAnyCall(c, cs) == UNION {cs[k].seen : k \in DOMAIN cs}

\* the set "seen" that add_rows of the call c closes over, lines 243, 255-257
SeenOf(c, cs) == cs[c].seen

\* history: add_rows over the pages ps, one after another
RECURSIVE AddAll(_, _, _)
AddAll(ps, rws, sn) ==
    IF ps = <<>> THEN [rows |-> rws, seen |-> sn]
    ELSE LET r == add_rows(Head(ps), rws, sn) IN AddAll(Tail(ps), r.rows, r.seen)

ConcurrentInit ==
    /\ handler = "none" /\ token = TRUE
    /\ argFrom = <<>> /\ argTo = <<>> /\ argQ = <<>> /\ argTracking = <<>> /\ max_pages = 0
    /\ pc = "idle"
    /\ dfrom = JDate(Ordinal(2025, 9, 1)) /\ dto = JDate(Ordinal(2025, 9, 30))
    /\ Entered
    /\ unwrapArg = JNull /\ unwrapOut = Pending
    /\ calls = [c \in CallIds |-> [FreshCall EXCEPT !.pc = "start"]]

\* the call c reaches line 243
CallStart(c) ==
    /\ calls[c].pc = "start"
    /\ calls' = [calls EXCEPT ![c] = FreshCall]
    /\ UNCHANGED <<call, unwrapArg, unwrapOut>>

\* lines 285-299 for the call c: one fetch, add_rows, and the return of line
\* 318 after an empty page or the last page allowed
CallSweep(c) ==
    /\ calls[c].pc = "sweep"
    /\ \E p \in ConcurrentPages :
        LET r == add_rows(p, calls[c].rows, SeenOf(c, calls))
            last == p = <<>> \/ Len(calls[c].served) + 1 >= MaxCallFetches
        IN  calls' = [calls EXCEPT ![c] =
                         [pc |-> IF last THEN "done" ELSE "sweep",
                          rows |-> r.rows,
                          seen |-> r.seen,
                          served |-> Append(calls[c].served, p),
                          result |-> IF last THEN OkRows(r.rows) ELSE Pending]]
    /\ UNCHANGED <<call, unwrapArg, unwrapOut>>

ConcurrentNext == \E c \in CallIds : CallStart(c) \/ CallSweep(c)

ConcurrentSpec == ConcurrentInit /\ [][ConcurrentNext]_vars

(***************************************************************************)
(* Properties.                                                             *)
(***************************************************************************)
\* list_orders was called without a numeric q: the resolution by date window
ByWindow == handler = "list_orders" /\ ~IsDigit(Strip(argQ))
\* list_orders was called with a numeric q: the resolution by id
ById == handler = "list_orders" /\ IsDigit(Strip(argQ))
ByTracking == handler = "lookup_by_tracking"

Done == pc = "done"
\* the handler returned a JSON payload with a row list
ReturnedRows == Done /\ result.kind = "response" /\ "rows" \in DOMAIN result.json

NoTwoWithOneId(rs) == \A i, j \in DOMAIN rs : i # j => rs[i].orderId # rs[j].orderId

\* C1: in a resolution by date window, under every pagination mode and for
\* every sequence of upstream pages, the rows never hold two records with the
\* same orderId: neither the rows collected so far nor the rows returned.
C1_NoDuplicateIds ==
    ByWindow => /\ NoTwoWithOneId(rows)
                /\ (ReturnedRows => NoTwoWithOneId(result.json.rows))

\* C1, its case: page mode, more than one page swept, two different upstream
\* objects with id 8 both inside the window, and one row with id 8 returned.
C1_Witness ==
    /\ ByWindow /\ ReturnedRows
    /\ pg.mode = "page" /\ nscan >= 2
    /\ {OrderC, OrderD} \subseteq swept
    /\ ~OutsideWindow(OrderC) /\ ~OutsideWindow(OrderD)
    /\ Cardinality({i \in DOMAIN result.json.rows : result.json.rows[i].orderId = JInt(8)}) = 1

\* the date of the object o parses
DateParses(o) == Truthy(CreatedTable[o].d)
\* the date of o parses and lies before dfrom or after dto
ParsesOutside(o) ==
    DateParses(o) /\ (CreatedTable[o].d.date < dfrom.date \/ CreatedTable[o].d.date > dto.date)
\* a row built from o is among the rows rs
RowOf(o, rs) == \E i \in DOMAIN rs : rs[i] = RowTable[o]

\* C2, as stated: in a resolution by date window, every fetched record whose
\* date parses and lies outside [from, to] is absent from the returned rows,
\* and every fetched record whose date does not parse is in the returned rows.
C2_AsStated ==
    (ByWindow /\ ReturnedRows) =>
        \A o \in swept :
            /\ ParsesOutside(o) => ~RowOf(o, result.json.rows)
            /\ ~DateParses(o) => RowOf(o, result.json.rows)

\* C2, amended: every fetched record whose date parses and lies outside
\* [from, to] is absent from the returned rows; a fetched record whose date
\* does not parse is never dropped for its date: if its id is non-empty the
\* returned rows hold a row with that id, and that row is its own when no
\* other fetched record carries the id.
C2_DateFilter ==
    (ByWindow /\ ReturnedRows) =>
        \A o \in swept :
            /\ ParsesOutside(o) => ~RowOf(o, result.json.rows)
            /\ (~DateParses(o) /\ Truthy(Get(o, "id"))) =>
                   /\ \E i \in DOMAIN result.json.rows :
                          result.json.rows[i].orderId = Get(o, "id")
                   /\ (\A x \in swept : Get(x, "id") = Get(o, "id") => x = o)
                          => RowOf(o, result.json.rows)

\* C2, its case: the window is September 2025; the object dated 2025-08-15
\* and the one dated 2025-10-02 were fetched and are absent, the one dated
\* "28/09/2025" was fetched and its row is returned.
C2_Witness ==
    /\ ByWindow /\ ReturnedRows
    /\ argFrom # <<>>
    /\ {OrderB, OrderC, OrderD} \subseteq swept
    /\ ParsesOutside(OrderB) /\ ParsesOutside(OrderC) /\ ~DateParses(OrderD)
    /\ ~RowOf(OrderB, result.json.rows) /\ ~RowOf(OrderC, result.json.rows)
    /\ RowOf(OrderD, result.json.rows)

\* C3: when the upstream answers HTTP 403 to every request, the resolution by
\* date window ends with an error result (ok = false), never with a success.
C3_ForbiddenIsError ==
    (ByWindow /\ Done /\ answered = "all403") =>
        /\ result.kind = "response"
        /\ result.json.ok = FALSE
        /\ result.http = 502

\* C3, its case: the plain fetch, the fourteen trial fetches, the limit-only
\* fetch and the final fetch were all answered 403, and the handler returned
\* the 502 error.
C3_Witness ==
    /\ ByWindow /\ Done /\ answered = "all403"
    /\ nreq = 17 /\ nscan = 1
    /\ pg.mode = "none" /\ pg.size = FallbackSize
    /\ result = HttpError(403)

\* the handler ended with an error result: a JSON payload with ok = false
ErrorResult == Done /\ result.kind = "response" /\ result.json.ok = FALSE

\* C4, as stated: when the upstream answers HTTP 401 or 403 to every request,
\* the resolution by tracking and the resolution by id each end with an error
\* result, not with a success-shaped not-found or empty result.
C4_AsStated ==
    (Done /\ (ByTracking \/ ById) /\ answered \in {"all403", "allAuth"}) => ErrorResult

\* C5, as stated: when the credential is missing, no operation issues an
\* upstream request and every operation returns the configuration error.
C5_AsStated ==
    ~token => /\ nreq = 0
              /\ Done => result = ConfigError

\* C6, as stated: whatever the upstream does on any outbound call, every
\* operation ends in a structured result; no raw exception leaves the handler.
C6_AsStated == Done => result.kind = "response"

\* _discover_pagination has returned
DiscoveryReturned == pg # UnsetPg

\* C7: once the upstream has served a candidate's two trial fetches with
\* success, non-empty, and with different first records, _discover_pagination
\* has returned, and the strategy it returned is not 'none'.
C7_DifferingTrialsPaginate ==
    trials = "differ" => (DiscoveryReturned /\ pg.mode # "none")

\* C7, its case: the first six candidates were turned down, the trial pages
\* of the seventh (skip/take) differed, and mode offset was returned.
C7_Witness ==
    /\ trials = "differ"
    /\ nreq = 15
    /\ pg.mode = "offset" /\ pg.keys.offset = "skip" /\ pg.size = TrialSize

\* C8: unless some candidate's two trial fetches were served with different
\* first records (so, in particular, when every candidate's two trial fetches
\* returned the same first record), _discover_pagination returns neither
\* 'page' nor 'offset': it returns 'none' or 'limit_only'.
C8_SameFirstNeverPaginates ==
    (DiscoveryReturned /\ trials # "differ") => pg.mode \in {"none", "limit_only"}

\* C8, its case: all seven page and offset candidates had their two trial
\* fetches served with the same first record, and limit_only was returned.
C8_Witness ==
    /\ trials = "same"
    /\ nreq >= 16
    /\ pg.mode = "limit_only"

\* the comparison of the claim: upper case, every character that is no letter
\* and no digit removed
AlnumUpper(s) ==
    SelectSeq(Upper(s), LAMBDA c : c \in Range(UpperChars) \cup Range(LowerChars) \cup Range(DigitChars))
\* the record o carries the tracking code asked for
SameTracking(o) == IsDict(o) /\ AlnumUpper(_extract_tracking(o)) = AlnumUpper(argTracking)
\* the records of the pages scanned
Scanned == prev \cup Range(items)

\* C9, as stated: after discovery the resolution by tracking issues at most
\* max_pages scan fetches, and when no scanned record matches it returns
\* not-found (ok = true, found = false), not an error.
C9_AsStated ==
    (ByTracking /\ Done /\ DiscoveryReturned) =>
        /\ nscan <= max_pages
        /\ (\A o \in Scanned : ~SameTracking(o)) => result = NotFound

\* C10: the resolution by tracking, when it answers after scanning, returns a
\* record exactly when some scanned record carries the tracking code asked
\* for, compared in upper case without the non-alphanumeric characters; the
\* record returned is the first such record in fetch order, and its row is
\* the one answered.
C10_FirstMatchReturned ==
    (ByTracking /\ Done /\ DiscoveryReturned /\ result.kind = "response") =>
        IF \E o \in Scanned : SameTracking(o)
        THEN /\ SameTracking(found)
             /\ \A o \in prev : ~SameTracking(o)
             /\ \E i \in DOMAIN items :
                    /\ items[i] = found
                    /\ \A j \in 1..(i - 1) : ~SameTracking(items[j])
             /\ result = Found(found)
        ELSE found = JNull /\ result = NotFound

\* C10, its case: asked for "AA 123456789-BR", after a first page without a
\* match the second page holds two matching records, and the first of them,
\* whose code is spelled "aa123456789br", is returned.
C10_Witness ==
    /\ ByTracking /\ Done
    /\ argTracking = TrkAaSpaced
    /\ pg.mode = "page" /\ nscan = 2 /\ prev # {}
    /\ items = <<OrderB, OrderC>>
    /\ found = OrderB
    /\ result = Found(OrderB)
    /\ result.json.row.tracking = Upper(TrkAaLower)

\* the detail fetch was answered 200 with a JSON body
DetailServed == detail.kind = "response" /\ detail.st = 200 /\ detail.body.t = "json"
\* the record that body carries: the first element of its non-empty data
\* list, or the body itself
DetailServedRecord ==
    LET js == detail.body.js
    IN  IF IsDict(js) /\ IsList(Get(js, "data")) /\ Get(js, "data").list # <<>>
        THEN Head(Get(js, "data").list)
        ELSE js

\* C11: when q is a digit string, the resolution by id issues no request but
\* the detail fetch GET /order/{q} (no pagination discovery, no list fetch),
\* and when that fetch is answered 200 with a record, the row of that record
\* is returned, alone, whatever its date is relative to the window.
C11_DetailOnly ==
    ById =>
        /\ pg = UnsetPg /\ nscan = 0 /\ nreq <= 1
        /\ nreq = 1 => req = [path |-> "/order/{q}", id |-> Strip(argQ), params |-> NoParams]
        /\ (Done /\ DetailServed /\ IsDict(DetailServedRecord)) =>
               /\ result.kind = "response" /\ result.http = 200
               /\ result.json.ok = TRUE /\ result.json.count = 1
               /\ result.json.rows = <<OrderRow(DetailServedRecord)>>

\* C11, its case: q = "7" with the window September 2025; the detail fetch is
\* answered with a record dated 2025-08-15, and its row is returned.
C11_Witness ==
    /\ ById /\ Done /\ DetailServed
    /\ argFrom # <<>>
    /\ nreq = 1
    /\ DetailServedRecord = OrderB
    /\ CreatedTable[OrderB].d.date < dfrom.date
    /\ result.json.rows = <<OrderRow(OrderB)>>

\* the known keys, in the order of the claim, under which v holds a list
ListKeysOf(v) ==
    SelectSeq(<<"data", "results", "items", "orders", "pedidos">>,
              LAMBDA k : k \in DOMAIN v.dict /\ IsList(v.dict[k]))

\* C12: _unwrap_list returns a list as it is; for a dict, the value of the
\* first key among data, results, items, orders, pedidos that holds a list,
\* and the one-element sequence of the dict itself when none does; the empty
\* sequence for null and every other value.  So a bare list, {data: [...]},
\* {results: [...]} and a bare single object give the inner list.
C12_Unwrap ==
    unwrapOut # Pending =>
        /\ IsList(unwrapArg) => unwrapOut.list = unwrapArg.list
        /\ IsDict(unwrapArg) =>
               unwrapOut.list = IF ListKeysOf(unwrapArg) # <<>>
                                THEN unwrapArg.dict[Head(ListKeysOf(unwrapArg))].list
                                ELSE <<unwrapArg>>
        /\ (~IsList(unwrapArg) /\ ~IsDict(unwrapArg)) => unwrapOut.list = <<>>
        /\ unwrapArg = JList(<<OrderC>>) => unwrapOut.list = <<OrderC>>
        /\ unwrapArg = JDict([data |-> JList(<<OrderA, OrderB>>)])
               => unwrapOut.list = <<OrderA, OrderB>>
        /\ unwrapArg = JDict([results |-> JList(<<OrderD, OrderA>>)])
               => unwrapOut.list = <<OrderD, OrderA>>
        /\ unwrapArg = OrderA => unwrapOut.list = <<OrderA>>

\* C12, its case: a dict whose data is null and whose results and items are
\* lists has been unwrapped to the list under results.
C12_Witness ==
    /\ IsDict(unwrapArg)
    /\ DOMAIN unwrapArg.dict = {"data", "results", "items"}
    /\ unwrapArg.dict["data"] = JNull
    /\ IsList(unwrapArg.dict["results"]) /\ IsList(unwrapArg.dict["items"])
    /\ unwrapOut = JList(<<JStr(<<"results">>)>>)

\* the window asked for is [2025-09-01, 2025-09-30]
SeptemberAsked ==
    /\ argFrom = <<"2", "0", "2", "5", "-", "0", "9", "-", "0", "1">>
    /\ argTo = <<"2", "0", "2", "5", "-", "0", "9", "-", "3", "0">>

\* C13: against an upstream that answers every list fetch with
\* {"data": [{id 7, frete.rastreio "AB123456789BR", data "2025-09-28 19:28:18"}]},
\* the resolution by date window for [2025-09-01, 2025-09-30] returns
\* exactly one row: id 7, tracking "AB123456789BR", createdAt the raw string.
C13_Scenario ==
    (ByWindow /\ SeptemberAsked /\ Done /\ answered = "scenario") =>
        /\ result.kind = "response" /\ result.http = 200
        /\ result.json.ok = TRUE
        /\ result.json.count = 1
        /\ Len(result.json.rows) = 1
        /\ result.json.rows[1].orderId = JInt(7)
        /\ result.json.rows[1].tracking =
               <<"A", "B", "1", "2", "3", "4", "5", "6", "7", "8", "9", "B", "R">>
        /\ result.json.rows[1].createdAt =
               JStr(<<"2", "0", "2", "5", "-", "0", "9", "-", "2", "8", " ",
                      "1", "9", ":", "2", "8", ":", "1", "8">>)

\* C13, its case: the unparameterized fetch, the widening fetch and the
\* single fetch of mode none were answered so, and the call returned a row.
C13_Witness ==
    /\ ByWindow /\ SeptemberAsked /\ Done /\ answered = "scenario"
    /\ nreq = 3 /\ nscan = 1
    /\ pg = [mode |-> "none", keys |-> NoKeys, size |-> 1]
    /\ Len(rows) = 1

\* C14: in a resolution by date window, every row is built from the first
\* object fetched with its id (a later object with that id never supplies
\* the row), and the count returned is the number of rows returned.
C14_AsStated ==
    ByWindow =>
        /\ \A i \in DOMAIN rows :
               /\ rows[i].orderId \in DOMAIN firstOf
               /\ rows[i] = RowTable[firstOf[rows[i].orderId]]
        /\ (ReturnedRows => result.json.count = Len(result.json.rows))

\* a page or offset walk is under way and the page fetched last held fewer
\* records than the size asked for
ShortPageFetched ==
    /\ nscan >= 1
    /\ \/ ByWindow /\ pc \in {"sweepP", "lookP", "sweepO", "lookO"} /\ fetched.len < pg.size
       \/ ByTracking /\ pc \in {"scanP", "scanO"} /\ Len(items) < pg.size

\* C15: in the page and offset walks of the resolution by date window and of
\* the resolution by tracking, once a fetched page held fewer records than
\* the size asked for, no further page of the walk is fetched.
C15_AsStated == [][ShortPageFetched => nscan' = nscan]_vars

\* the page fetched last by the loop of a page or offset walk of the
\* resolution by date window holds a date before the window start
CrossingFetched ==
    /\ ByWindow /\ pg.mode \in {"page", "offset"} /\ ~Done
    /\ nscan >= 1 /\ status = 200
    /\ fetched.min # JNull /\ fetched.min.date < dfrom.date

\* the rows added by this step come from objects fetched, inside the window
\* or undated, with an id not seen before; no object newly fetched that
\* passes the filter is left without a row for its id
FilteredAndDeduped ==
    /\ Len(rows') >= Len(rows) /\ SubSeq(rows', 1, Len(rows)) = rows
    /\ \A i \in (Len(rows) + 1)..Len(rows') :
           \E o \in swept' : /\ rows'[i] = RowTable[o]
                             /\ ~OutsideWindow(o)
                             /\ Get(o, "id") \notin seen
    /\ NoTwoWithOneId(rows')
    /\ \A o \in swept' \ swept :
           (~OutsideWindow(o) /\ Truthy(Get(o, "id"))) =>
               \E i \in DOMAIN rows' : rows'[i].orderId = Get(o, "id")

\* C16: in the page and offset walks of the resolution by date window, after
\* the first page whose earliest parsable date is before the window start,
\* the next step fetches exactly one further page, passes its records
\* through the date filter and the dedup, and ends the walk: no page beyond
\* the lookahead page is fetched.
C16_OneLookahead ==
    [][CrossingFetched =>
          /\ pc \in {"lookP", "lookO"}
          /\ nscan' = nscan + 1
          /\ pc' = "done"
          /\ FilteredAndDeduped]_vars

\* C16, its case: page 1 held the August order and the order of 28 September,
\* the lookahead page held the October order and the undated order with id 8;
\* the call returned the rows of ids 7 and 8 after two fetches.
C16_Witness ==
    /\ ByWindow /\ SeptemberAsked /\ ReturnedRows
    /\ pg.mode = "page" /\ nscan = 2
    /\ status = 200 /\ status2 = 200
    /\ fetched.len = 2 /\ fetched.min # JNull /\ fetched.min.date < dfrom.date
    /\ swept = Orders
    /\ Len(rows) = 2 /\ rows[1].orderId = JInt(7) /\ rows[2] = RowTable[OrderD]
    /\ result = OkRows(rows)

\* C17: in the resolution by date window, the page and offset fetches of
\* the walk, the lookahead fetch included, never number more than the
\* max_pages of the caller.
C17_AsStated ==
    (ByWindow /\ DiscoveryReturned /\ pg.mode \in {"page", "offset"}) => nscan <= max_pages

\* a page or offset walk of the resolution by date window is under way: every
\* page fetched so far answered 200 with records
PagesFetched ==
    /\ ByWindow /\ pg.mode \in {"page", "offset"} /\ ~Done
    /\ nscan >= 1 /\ status = 200

\* this step fetches the next page, and the upstream answers with a status
\* other than 200
NextPageFails ==
    /\ nscan' = nscan + 1
    /\ \/ pc \in {"sweepP", "sweepO"} /\ status' # 200
       \/ pc \in {"lookP", "lookO"} /\ status2' \notin {0, 200}

\* C18: in the page and offset walks of the resolution by date window, when
\* pages 1..k answered 200 and the fetch of page k+1 answers another status,
\* the walk ends and the call returns a success whose rows are exactly the
\* rows accepted from pages 1..k: no error is reported and no row is lost.
C18_FailedPageEndsWalk ==
    [][(PagesFetched /\ NextPageFails) =>
          /\ pc' = "done"
          /\ rows' = rows
          /\ result'.kind = "response" /\ result'.http = 200
          /\ result'.json.ok = TRUE
          /\ result'.json.rows = rows
          /\ result'.json.count = Len(rows)]_vars

\* C18, its case: page 1 answered 200 and gave a row, page 2 answered
\* another status, and the call returned the rows of page 1.
C18_Witness ==
    /\ ByWindow /\ ReturnedRows
    /\ pg.mode = "page" /\ nscan = 2
    /\ status \notin {0, 200}
    /\ Len(rows) >= 1
    /\ result.json.rows = rows /\ result.json.ok = TRUE

\* some fetch of the sweep answered 200: the last one, or an earlier one of a
\* walk that went on after it
SweepFetchSucceeded == status = 200 \/ nscan >= 2

\* C19: in the resolution by date window, under every pagination mode, when
\* every fetch of the sweep answered 401 or 403 the call returns an error,
\* and a success without rows is returned only when some fetch of the sweep
\* answered 200. Read for the calls whose sweep fetched at least once.
C19_AsStated ==
    (ByWindow /\ Done /\ DiscoveryReturned /\ nscan >= 1 /\ result.kind = "response") =>
        /\ (nscan = 1 /\ status \in {401, 403}) => ErrorResult
        /\ (result.json.ok = TRUE /\ result.json.rows = <<>>) => SweepFetchSucceeded

\* C20: two calls of the resolution by date window served at once share no
\* mutable state: at every moment, under every interleaving of their
\* fetches, the rows and the seen ids of a call are those that its own
\* pages give to a call running alone, and so is the result it returns.
C20_CallsIndependent ==
    \A c \in DOMAIN calls :
        LET alone == AddAll(calls[c].served, <<>>, {}) IN
        /\ calls[c].rows = alone.rows
        /\ calls[c].seen = alone.seen
        /\ calls[c].pc = "done" => calls[c].result = OkRows(alone.rows)

\* C20, its case: both calls were served the same two pages, each with the
\* order of id 7, and both returned the rows of ids 7 and 8.
C20_Witness ==
    /\ DOMAIN calls = CallIds
    /\ \A c \in CallIds :
           /\ calls[c].pc = "done"
           /\ calls[c].served = <<<<OrderA>>, <<OrderD, OrderA>>>>
           /\ Len(calls[c].result.json.rows) = 2
           /\ calls[c].result.json.rows[1].orderId = JInt(7)

====
